---------------------------- MODULE Spec2Model ----------------------------
(***************************************************************************)
(* dynconf.Config (src/python/dynconf/__init__.py): a process-local cache  *)
(* of the settings stored under a path prefix in etcd, loaded in bulk at   *)
(* construction and kept current by a prefix watch whose callback, _watch, *)
(* applies Put/Delete events and, when the stream terminates, runs the     *)
(* reconnect loop.                                                         *)
(*                                                                         *)
(* Threads: the foreground thread (construction, close, the getters) and   *)
(* the etcd client's watcher thread (the _watch callback).                 *)
(***************************************************************************)
EXTENDS Integers, Sequences, FiniteSets, TLC

VARIABLES
    \* ---- the remote store and the network ----
    store,      \* etcd keyspace under the prefix: raw key -> raw value (bytes)
    up,         \* TRUE while etcd is reachable
    outages,    \* number of times etcd became unreachable
    writes,     \* number of writes made to the store
    watches,    \* server side: the watches, <<client, watch id>> -> events not
                \* yet handed to the callback
    signals,    \* watches whose stream terminated, callback not yet told
    \* ---- the fields of Config ----
    cache,      \* self._cache: name -> value (decoded strings)
    watch_id,   \* self._watch_id
    etcd,       \* self._etcd: the client in use
    closed,     \* clients on which close() was called
    \* ---- control ----
    main,       \* foreground thread: position in __init__, then "ready"
    cb,         \* watcher thread: position in _watch
    \* ---- observations (history) ----
    ctorLog,    \* the calls __init__ made: <<method, etcd's outcome, result>>
    cbError,    \* the exception that left the _watch callback, if any
    closeLog,   \* close(): number of calls, cancel_watch and close() issued
    rec,        \* the record of the current reconnect loop
    base,       \* the cache as the last _load that ran its loop left it
    hist,       \* the events handed to _watch since then, in order
    call,       \* a getter call in progress
    ret,        \* the result of the last getter call
    snap,       \* the mapping settings() returned, in the caller's hands
    owner       \* made: the client self._watch_id was obtained from;
                \* last: the client close() made its calls on, and the client
                \* the watch id it passed was obtained from

vars == <<store, up, outages, writes, watches, signals, cache, watch_id, etcd,
          closed, main, cb, ctorLog, cbError, closeLog, rec, base, hist, call,
          ret, snap, owner>>

----------------------------------------------------------------------------
(* Bounds of the model *)

MaxWrites == 1      \* writes made to the store by other parties
MaxOutages == 1     \* times etcd becomes unreachable
MaxBatch == 2       \* events etcd hands to the callback in one response
MaxCloseCalls == 2  \* calls of close()
MaxCounted == 3     \* reloads counted in one reconnect loop (the last: "or more")
MaxTrace == 2       \* steps of the reconnect loop remembered, the latest ones

----------------------------------------------------------------------------
(* Bytes and strings.  A byte is its number, a character a one-character   *)
(* string; a Python str is a sequence of characters.                       *)

\* None is the empty tuple; an optional value x is <<x>>.
None == <<>>
Some(x) == <<x>>

\* The ASCII characters the model uses, with their byte.
Ascii == {<<32, " ">>, <<43, "+">>, <<45, "-">>, <<46, ".">>, <<47, "/">>,
          <<48, "0">>, <<49, "1">>, <<50, "2">>, <<97, "a">>, <<98, "b">>,
          <<99, "c">>, <<101, "e">>, <<102, "f">>, <<105, "i">>,
          <<108, "l">>, <<114, "r">>, <<115, "s">>, <<116, "t">>,
          <<117, "u">>}

\* bytes.decode('utf-8') and str.encode('utf-8'), a byte or character at a
\* time; the byte 255 occurs in no UTF-8 text.
Chr(b) == (CHOOSE p \in Ascii : p[1] = b)[2]
Ord(ch) == (CHOOSE p \in Ascii : p[2] = ch)[1]

ValidUtf8(bs) == \A i \in 1..Len(bs) : \E p \in Ascii : p[1] = bs[i]

Decode(bs) == [i \in 1..Len(bs) |-> Chr(bs[i])]
Encode(str) == [i \in 1..Len(str) |-> Ord(str[i])]

\* self._path, and its bytes as etcd sees them
Path == <<"/", "c", "/">>
PathBytes == <<47, 99, 47>>

\* The settings "a" and "b"; the values "1" and "2", and one that is not
\* UTF-8.
RawNames == {<<97>>, <<98>>}
RawKeys == {PathBytes \o n : n \in RawNames}
RawVals == {<<49>>, <<50>>, <<255>>}
Names == {Decode(n) : n \in RawNames}

\* Config._decode_setting: the key without the prefix, both decoded as UTF-8.
\* The result is <<ok, k, v>>; ok = FALSE is UnicodeDecodeError.
_decode_setting(key, value, prefix_len) ==
    LET k == SubSeq(key, prefix_len + 1, Len(key))
    IN  IF ValidUtf8(k) /\ ValidUtf8(value)
        THEN <<TRUE, Decode(k), Decode(value)>>
        ELSE <<FALSE, <<>>, <<>>>>

----------------------------------------------------------------------------
(* dict operations on self._cache *)

\* (mutant of DictSet: the value of an existing key is extended, not replaced)
DictSetAppends(d, k, v) ==
    [x \in DOMAIN d \cup {k} |->
        IF x # k THEN d[x] ELSE IF k \in DOMAIN d THEN d[k] \o v ELSE v]

DictSet(d, k, v) == [x \in DOMAIN d \cup {k} |-> IF x = k THEN v ELSE d[x]]
DictDel(d, k) == [x \in DOMAIN d \ {k} |-> d[x]]
EmptyDict == [x \in {} |-> <<>>]

----------------------------------------------------------------------------
(* The etcd client, as Config uses it *)

\* The first watch on a client's stream gets watch id 0, the next one 1, ...
FirstWatchId == 0

\* The watches registered on client c, and the id its next watch gets
WatchesOf(ws, c) == {w \in DOMAIN ws : w[1] = c}
NextWatchId(ws, c) == FirstWatchId + Cardinality(WatchesOf(ws, c))

\* Lexicographic order on byte strings: the order get_prefix returns keys in.
RECURSIVE BytesLess(_, _)
BytesLess(a, b) ==
    IF Len(a) = 0 THEN Len(b) > 0
    ELSE IF Len(b) = 0 THEN FALSE
    ELSE IF a[1] # b[1] THEN a[1] < b[1]
    ELSE BytesLess(Tail(a), Tail(b))

RECURSIVE SortedKeys(_)
SortedKeys(S) ==
    IF S = {} THEN <<>>
    ELSE LET m == CHOOSE x \in S : \A y \in S \ {x} : BytesLess(x, y)
         IN  <<m>> \o SortedKeys(S \ {m})

\* etcd.get_prefix(path): the (key, value) pairs under the prefix, by key.
GetPrefix(st) ==
    LET ks == SortedKeys(DOMAIN st)
    IN  [i \in 1..Len(ks) |-> [key |-> ks[i], value |-> st[ks[i]]]]

\* The outcome of a call on client c: a closed channel refuses the call
\* (ValueError, see the comment at line 150, or an etcd exception, depending
\* on the client); an unreachable etcd gives an Etcd3Exception.
RpcOutcomes(c) ==
    IF c \in closed THEN {"etcd_error", "value_error"}
    ELSE IF ~up THEN {"etcd_error"}
    ELSE {"ok"}

PutEvent(k, v) == [type |-> "put", key |-> k, value |-> v]
DeleteEvent(k) == [type |-> "delete", key |-> k, value |-> <<>>]

\* Every live watch receives the event.
Notify(ws, e) == [c \in DOMAIN ws |-> Append(ws[c], e)]

----------------------------------------------------------------------------
(* Config._load, lines 93-96: the loop over the fetched pairs.  The result *)
(* is the cache and whether the loop ended without UnicodeDecodeError.     *)

RECURSIVE LoadEntries(_, _)
LoadEntries(c, seq) ==
    IF seq = <<>> THEN [ok |-> TRUE, cache |-> c]
    ELSE LET d == _decode_setting(seq[1].key, seq[1].value, Len(Path))
         IN  IF ~d[1] THEN [ok |-> FALSE, cache |-> c]
             ELSE LoadEntries(DictSet(c, d[2], d[3]), Tail(seq))

(* Config._watch, lines 131-136: the loop over r.events.  err is the       *)
(* exception that ended the loop, or "none".                               *)

\* (mutant of ApplyEvents: the events of a response applied last to first)
RECURSIVE ApplyEventsReversed(_, _)
ApplyEventsReversed(c, events) ==
    IF events = <<>> THEN [err |-> "none", cache |-> c]
    ELSE LET e == events[Len(events)]
             d == _decode_setting(e.key, e.value, Len(Path))
             rest == SubSeq(events, 1, Len(events) - 1)
         IN  IF ~d[1] THEN [err |-> "UnicodeDecodeError", cache |-> c]
             ELSE IF e.type = "put"
                  THEN ApplyEventsReversed(DictSet(c, d[2], d[3]), rest)
             ELSE IF d[2] \in DOMAIN c
                  THEN ApplyEventsReversed(DictDel(c, d[2]), rest)
             ELSE [err |-> "KeyError", cache |-> c]

RECURSIVE ApplyEvents(_, _)
ApplyEvents(c, events) ==
    IF events = <<>> THEN [err |-> "none", cache |-> c]
    ELSE LET e == events[1]
             d == _decode_setting(e.key, e.value, Len(Path))
         IN  IF ~d[1] THEN [err |-> "UnicodeDecodeError", cache |-> c]
             ELSE IF e.type = "put"
                  THEN ApplyEvents(DictSet(c, d[2], d[3]), Tail(events))
             ELSE IF d[2] \in DOMAIN c
                  THEN ApplyEvents(DictDel(c, d[2]), Tail(events))
             ELSE [err |-> "KeyError", cache |-> c]

\* Config.settings
settings == cache

----------------------------------------------------------------------------
(* Initial state: Config.__init__ has run to line 64; the cache is empty,  *)
(* no watch exists, client 1 is self._etcd.                                *)

InitStores == UNION {[S -> RawVals] : S \in SUBSET RawKeys}

NoRec == [active |-> FALSE, cache0 |-> EmptyDict, loaded |-> None,
          fails |-> 0, oks |-> 0, closedInWait |-> FALSE, rpcAfterClose |-> FALSE,
          outcome |-> "none", trace |-> <<>>, waits |-> 0,
          closedInLoop |-> FALSE]

\* The record r of the reconnect loop after the loop made step s: "wait"
\* (line 166), "load_ok", "load_fail", "load_raised" (line 170), "watch_ok",
\* "watch_fail", "watch_raised" (line 172), "give_up" (line 161).
Step(r, s) ==
    LET t == Append(r.trace, s)
    IN  [r EXCEPT !.trace = IF Len(t) > MaxTrace
                            THEN SubSeq(t, Len(t) - MaxTrace + 1, Len(t))
                            ELSE t]

Idle == [stage |-> "idle"]
NoRet == [kind |-> "none"]

\* settings() has not been called.  Once it has: map is the mapping the
\* caller holds, at the cache as it was at the call, shared whether the
\* mapping is the very dict self._cache, edited whether the caller changed it.
NoSnap == [taken |-> FALSE, shared |-> FALSE, map |-> EmptyDict,
           at |-> EmptyDict, edited |-> FALSE]

\* The caller's mapping once self._cache has become c
Held(c) == IF snap.shared THEN [snap EXCEPT !.map = c] ELSE snap

\* No watch id was obtained, and close() has made no call.
NoOwner == [made |-> None, last |-> None]

InitConfig ==
    /\ cache = EmptyDict
    /\ watch_id = None
    /\ etcd = 1
    /\ closed = {}
    /\ main = "load"
    /\ cb = "idle"
    /\ ctorLog = <<>>
    /\ cbError = "none"
    /\ closeLog = [calls |-> 0, cancel |-> 0, close |-> 0]
    /\ rec = NoRec
    /\ base = EmptyDict
    /\ hist = <<>>
    /\ call = Idle
    /\ ret = NoRet
    /\ snap = NoSnap
    /\ owner = NoOwner

Init ==
    /\ store \in InitStores
    /\ up = TRUE
    /\ outages = 0
    /\ writes = 0
    /\ watches = [c \in {} |-> <<>>]
    /\ signals = {}
    /\ InitConfig

remoteVars == <<store, up, outages, writes, watches, signals>>
getterVars == <<call, ret>>

----------------------------------------------------------------------------
(* The remote store: writes by other parties, and etcd going away *)

StorePut(k, v) ==
    /\ writes < MaxWrites
    /\ writes' = writes + 1
    /\ store' = DictSet(store, k, v)
    /\ watches' = Notify(watches, PutEvent(k, v))
    /\ UNCHANGED <<up, outages, signals, cache, watch_id, etcd, owner, closed, main,
                   cb, ctorLog, cbError, closeLog, rec, call, ret, base, hist, snap>>

StoreDelete(k) ==
    /\ writes < MaxWrites
    /\ k \in DOMAIN store
    /\ writes' = writes + 1
    /\ store' = DictDel(store, k)
    /\ watches' = Notify(watches, DeleteEvent(k))
    /\ UNCHANGED <<up, outages, signals, cache, watch_id, etcd, owner, closed, main,
                   cb, ctorLog, cbError, closeLog, rec, call, ret, base, hist, snap>>

\* etcd becomes unreachable: every watch stream terminates, what it had in
\* flight is lost, and each watcher thread will call its callback with the
\* error.
Outage(limit) ==
    /\ up
    /\ outages < limit
    /\ up' = FALSE
    /\ outages' = outages + 1
    /\ signals' = signals \cup DOMAIN watches
    /\ watches' = [c \in {} |-> <<>>]
    /\ UNCHANGED <<store, writes, cache, watch_id, etcd, owner, closed, main, cb,
                   ctorLog, cbError, closeLog, rec, call, ret, base, hist, snap>>

ServerDown == Outage(MaxOutages)

ServerUp ==
    /\ ~up
    /\ up' = TRUE
    /\ UNCHANGED <<store, outages, writes, watches, signals, cache, watch_id,
                   etcd, owner, closed, main, cb, ctorLog, cbError, closeLog, rec,
                   call, ret, base, hist, snap>>

----------------------------------------------------------------------------
(* Config._load and Config._create_watcher, as the callers see them.       *)
(* _load(o): outcome o of get_prefix; the result is the value returned     *)
(* ("True", "False") or "raised", and the cache.                           *)

\* (mutant of _load: the cache is emptied before it is filled)
_loadClears(o) ==
    IF o = "etcd_error" THEN [result |-> "False", cache |-> cache]
    ELSE IF o = "value_error" THEN [result |-> "raised", cache |-> cache]
    ELSE LET r == LoadEntries(EmptyDict, GetPrefix(store))
         IN  [result |-> IF r.ok THEN "True" ELSE "raised", cache |-> r.cache]

\* (mutant of _load: the Etcd3Exception is not caught)
_loadRaises(o) ==
    IF o # "ok" THEN [result |-> "raised", cache |-> cache]
    ELSE LET r == LoadEntries(cache, GetPrefix(store))
         IN  [result |-> IF r.ok THEN "True" ELSE "raised", cache |-> r.cache]

_load(o) ==
    IF o = "etcd_error" THEN [result |-> "False", cache |-> cache]
    ELSE IF o = "value_error" THEN [result |-> "raised", cache |-> cache]
    ELSE LET r == LoadEntries(cache, GetPrefix(store))
         IN  [result |-> IF r.ok THEN "True" ELSE "raised", cache |-> r.cache]

\* _create_watcher(o): outcome o of add_watch_prefix_callback.
_create_watcher(o) ==
    IF o = "ok"
    THEN LET new == <<etcd, NextWatchId(watches, etcd)>>
         IN  [result |-> "True", watch_id |-> Some(new[2]),
              watches |-> [w \in DOMAIN watches \cup {new} |->
                              IF w = new THEN <<>> ELSE watches[w]],
              owner |-> [owner EXCEPT !.made = Some(etcd)]]
    ELSE [result |-> IF o = "etcd_error" THEN "False" ELSE "raised",
          watch_id |-> watch_id, watches |-> watches, owner |-> owner]

----------------------------------------------------------------------------
(* Config.__init__, lines 65 and 66 *)

CtorLoad ==
    /\ main = "load"
    /\ \E o \in RpcOutcomes(etcd) :
         LET r == _load(o)
         IN  /\ cache' = r.cache
             /\ ctorLog' = Append(ctorLog, <<"_load", o, r.result>>)
             /\ main' = IF r.result = "raised" THEN "raised" ELSE "watch"
             /\ base' = IF r.result = "False" THEN base ELSE r.cache
             /\ hist' = IF r.result = "False" THEN hist ELSE <<>>
    /\ UNCHANGED <<remoteVars, watch_id, etcd, owner, closed, cb, cbError, closeLog,
                   rec, call, ret>>
    /\ snap' = Held(cache')

\* (mutant of CtorCreateWatcher: a failed subscription at startup starts the
\* reconnect loop, as a terminated stream does)
CtorCreateWatcherRetries ==
    /\ main = "watch"
    /\ \E o \in RpcOutcomes(etcd) :
         LET r == _create_watcher(o)
         IN  /\ watch_id' = r.watch_id
             /\ watches' = r.watches
             /\ owner' = r.owner
             /\ ctorLog' = Append(ctorLog, <<"_create_watcher", o, r.result>>)
             /\ main' = IF r.result = "raised" THEN "raised" ELSE "ready"
             /\ cb' = IF r.result = "False" THEN "loop" ELSE cb
             /\ rec' = IF r.result = "False"
                       THEN [NoRec EXCEPT !.active = TRUE, !.cache0 = cache]
                       ELSE rec
    /\ UNCHANGED <<store, up, outages, writes, signals, cache, etcd, closed,
                   cbError, closeLog, call, ret, base, hist, snap>>

CtorCreateWatcher ==
    /\ main = "watch"
    /\ \E o \in RpcOutcomes(etcd) :
         LET r == _create_watcher(o)
         IN  /\ watch_id' = r.watch_id
             /\ watches' = r.watches
             /\ owner' = r.owner
             /\ ctorLog' = Append(ctorLog, <<"_create_watcher", o, r.result>>)
             /\ main' = IF r.result = "raised" THEN "raised" ELSE "ready"
    /\ UNCHANGED <<store, up, outages, writes, signals, cache, etcd, closed,
                   cb, cbError, closeLog, rec, call, ret, base, hist, snap>>

----------------------------------------------------------------------------
(* Config._watch, the watcher thread's callback *)

Min(a, b) == IF a < b THEN a ELSE b

\* Lines 128-138: a response with events.  etcd hands over the next n events
\* of the watch c.  An exception ends the callback; the rest of
\* the response is not applied.
WatchEvents(c, n) ==
    /\ cb = "idle"
    /\ c \in DOMAIN watches
    /\ n \in 1..Min(Len(watches[c]), MaxBatch)
    /\ LET r == ApplyEvents(cache, SubSeq(watches[c], 1, n))
       IN  /\ cache' = r.cache
           /\ cbError' = IF r.err = "none" THEN cbError ELSE r.err
    /\ watches' = [watches EXCEPT ![c] = SubSeq(@, n + 1, Len(@))]
    /\ hist' = hist \o SubSeq(watches[c], 1, n)
    /\ UNCHANGED <<store, up, outages, writes, signals, watch_id, etcd, owner,
                   closed, main, cb, ctorLog, closeLog, rec, base, call, ret>>
    /\ snap' = Held(cache')

\* (mutant of WatchNoEvents: the cache is emptied when the stream terminates)
WatchNoEventsClears(c) ==
    /\ cb = "idle"
    /\ c \in signals
    /\ signals' = signals \ {c}
    /\ etcd' = etcd + 1
    /\ cb' = "loop"
    /\ rec' = [NoRec EXCEPT !.active = TRUE, !.cache0 = cache]
    /\ cache' = EmptyDict
    /\ UNCHANGED <<store, up, outages, writes, watches, watch_id, owner, closed, main,
                   ctorLog, cbError, closeLog, call, ret, base, hist>>
    /\ snap' = Held(cache')

\* (mutant of WatchNoEvents: with an empty cache, one _load on the new
\* client before the loop)
WatchNoEventsReloads(c) ==
    /\ cb = "idle"
    /\ c \in signals
    /\ signals' = signals \ {c}
    /\ etcd' = etcd + 1
    /\ cb' = "loop"
    /\ IF cache # EmptyDict
       THEN /\ rec' = [NoRec EXCEPT !.active = TRUE, !.cache0 = cache]
            /\ UNCHANGED <<cache, base, hist>>
       ELSE LET r == _load(IF up THEN "ok" ELSE "etcd_error")
            IN  /\ cache' = r.cache
                /\ base' = IF up THEN r.cache ELSE base
                /\ hist' = IF up THEN <<>> ELSE hist
                /\ rec' = [NoRec EXCEPT !.active = TRUE, !.cache0 = cache,
                                        !.oks = IF r.result = "True" THEN 1 ELSE 0,
                                        !.fails = IF r.result = "True" THEN 0 ELSE 1]
    /\ UNCHANGED <<store, up, outages, writes, watches, watch_id, owner,
                   closed, main, ctorLog, cbError, closeLog, call, ret>>
    /\ snap' = Held(cache')

\* Lines 140-155: the stream of the watch c terminated (r has no events): a new
\* client replaces self._etcd and the reconnect loop starts.
WatchNoEvents(c) ==
    /\ cb = "idle"
    /\ c \in signals
    /\ signals' = signals \ {c}
    /\ etcd' = etcd + 1
    /\ cb' = "loop"
    /\ rec' = [NoRec EXCEPT !.active = TRUE, !.cache0 = cache]
    /\ UNCHANGED <<store, up, outages, writes, watches, cache, watch_id, owner,
                   closed, main, ctorLog, cbError, closeLog, call, ret, base, hist, snap>>

\* (mutant of LoopTest: the loop does not test self._watch_id)
LoopTestNeverGivesUp ==
    /\ cb = "loop"
    /\ cb' = "sleep"
    /\ rec' = Step([rec EXCEPT !.waits = Min(@ + 1, MaxCounted)], "wait")
    /\ UNCHANGED <<remoteVars, cache, watch_id, etcd, owner, closed, main, ctorLog,
                   cbError, closeLog, call, ret, base, hist, snap>>

\* Lines 156-166: the test at the top of the loop, then into time.sleep.
LoopTest ==
    /\ cb = "loop"
    /\ IF watch_id = None
       THEN /\ cb' = "idle"
            /\ rec' = Step([rec EXCEPT !.active = FALSE, !.outcome = "closed",
                                       !.cache0 = EmptyDict, !.loaded = None],
                           "give_up")
       ELSE /\ cb' = "sleep"
            /\ rec' = Step([rec EXCEPT !.waits = Min(@ + 1, MaxCounted)],
                           "wait")
    /\ UNCHANGED <<remoteVars, cache, watch_id, etcd, owner, closed, main, ctorLog,
                   cbError, closeLog, call, ret, base, hist, snap>>

\* Lines 166-171: the sleep ends and _load runs.
\* (mutant of Reload: after a failed _load the loop goes on to
\* _create_watcher, as if `continue` were missing)
ReloadFallsThrough ==
    /\ cb = "sleep"
    /\ \E o \in RpcOutcomes(etcd) :
         LET r == _load(o)
         IN  /\ cache' = r.cache
             /\ cb' = IF r.result = "raised" THEN "idle" ELSE "loaded"
             /\ cbError' = IF r.result # "raised" THEN cbError
                           ELSE IF o = "ok" THEN "UnicodeDecodeError"
                           ELSE "ValueError"
             /\ rec' = CASE r.result = "True" ->
                              Step([rec EXCEPT !.loaded = Some(LoadEntries(EmptyDict, GetPrefix(store)).cache),
                                               !.oks = Min(@ + 1, MaxCounted)],
                                   "load_ok")
                         [] r.result = "False" ->
                              Step([rec EXCEPT !.fails = Min(@ + 1, MaxCounted)],
                                   "load_fail")
                         [] OTHER ->
                              Step([rec EXCEPT !.active = FALSE, !.outcome = "raised",
                                               !.cache0 = EmptyDict, !.loaded = None],
                                   "load_raised")
             /\ base' = IF o = "ok" THEN r.cache ELSE base
             /\ hist' = IF o = "ok" THEN <<>> ELSE hist
    /\ UNCHANGED <<remoteVars, watch_id, etcd, owner, closed, main, ctorLog,
                   closeLog, call, ret>>
    /\ snap' = Held(cache')

Reload ==
    /\ cb = "sleep"
    /\ \E o \in RpcOutcomes(etcd) :
         LET r == _load(o)
         IN  /\ cache' = r.cache
             /\ cb' = CASE r.result = "True" -> "loaded"
                        [] r.result = "False" -> "loop"
                        [] OTHER -> "idle"
             /\ cbError' = IF r.result # "raised" THEN cbError
                           ELSE IF o = "ok" THEN "UnicodeDecodeError"
                           ELSE "ValueError"
             /\ rec' = CASE r.result = "True" ->
                              Step([rec EXCEPT !.loaded = Some(LoadEntries(EmptyDict, GetPrefix(store)).cache),
                                               !.oks = Min(@ + 1, MaxCounted),
                                               !.rpcAfterClose = @ \/ rec.closedInWait],
                                   "load_ok")
                         [] r.result = "False" ->
                              Step([rec EXCEPT !.fails = Min(@ + 1, MaxCounted),
                                               !.rpcAfterClose = @ \/ rec.closedInWait],
                                   "load_fail")
                         [] OTHER ->
                              Step([rec EXCEPT !.active = FALSE, !.outcome = "raised",
                                               !.cache0 = EmptyDict, !.loaded = None,
                                               !.rpcAfterClose = @ \/ rec.closedInWait],
                                   "load_raised")
             /\ base' = IF o = "ok" THEN r.cache ELSE base
             /\ hist' = IF o = "ok" THEN <<>> ELSE hist
    /\ UNCHANGED <<remoteVars, watch_id, etcd, owner, closed, main, ctorLog,
                   closeLog, call, ret>>
    /\ snap' = Held(cache')

\* (mutant of Resubscribe: no `break` after _create_watcher succeeded)
ResubscribeStays ==
    /\ cb = "loaded"
    /\ \E o \in RpcOutcomes(etcd) :
         LET r == _create_watcher(o)
         IN  /\ watch_id' = r.watch_id
             /\ watches' = r.watches
             /\ owner' = r.owner
             /\ cb' = IF r.result = "raised" THEN "idle" ELSE "loop"
             /\ cbError' = IF r.result = "raised" THEN "ValueError" ELSE cbError
             /\ rec' = CASE r.result = "True" -> Step(rec, "watch_ok")
                         [] r.result = "False" -> Step(rec, "watch_fail")
                         [] OTHER ->
                              Step([rec EXCEPT !.active = FALSE, !.outcome = "raised",
                                               !.cache0 = EmptyDict, !.loaded = None],
                                   "watch_raised")
    /\ UNCHANGED <<store, up, outages, writes, signals, cache, etcd, closed,
                   main, ctorLog, closeLog, call, ret, base, hist, snap>>

\* Lines 172-176: _load returned True and _create_watcher runs.
Resubscribe ==
    /\ cb = "loaded"
    /\ \E o \in RpcOutcomes(etcd) :
         LET r == _create_watcher(o)
         IN  /\ watch_id' = r.watch_id
             /\ watches' = r.watches
             /\ owner' = r.owner
             /\ cb' = IF r.result = "False" THEN "loop" ELSE "idle"
             /\ cbError' = IF r.result = "raised" THEN "ValueError" ELSE cbError
             /\ rec' = CASE r.result = "True" ->
                              Step([rec EXCEPT !.active = FALSE,
                                               !.outcome = "reconnected"],
                                   "watch_ok")
                         [] r.result = "False" -> Step(rec, "watch_fail")
                         [] OTHER ->
                              Step([rec EXCEPT !.active = FALSE, !.outcome = "raised",
                                               !.cache0 = EmptyDict, !.loaded = None],
                                   "watch_raised")
    /\ UNCHANGED <<store, up, outages, writes, signals, cache, etcd, closed,
                   main, ctorLog, closeLog, call, ret, base, hist, snap>>

----------------------------------------------------------------------------
(* Config.close, lines 72-76 *)

\* (mutant of close: self._watch_id is not reset)
closeKeepsHandle ==
    /\ main = "ready"
    /\ closeLog.calls < MaxCloseCalls
    /\ IF watch_id = None
       THEN /\ closeLog' = [closeLog EXCEPT !.calls = @ + 1]
            /\ UNCHANGED <<watches, closed, rec, owner>>
       ELSE /\ closeLog' = [calls |-> closeLog.calls + 1,
                            cancel |-> closeLog.cancel + 1,
                            close |-> closeLog.close + 1]
            /\ watches' = [w \in DOMAIN watches \ WatchesOf(watches, etcd) |->
                              watches[w]]
            /\ closed' = closed \cup {etcd}
            /\ owner' = [owner EXCEPT !.last = Some(<<etcd, owner.made[1]>>)]
            /\ rec' = [rec EXCEPT !.closedInWait = @ \/ cb = "sleep",
                                  !.closedInLoop = @ \/ rec.active]
    /\ UNCHANGED <<store, up, outages, writes, signals, cache, watch_id, etcd,
                   main, cb, ctorLog, cbError, call, ret, base, hist, snap>>

close ==
    /\ main = "ready"
    /\ closeLog.calls < MaxCloseCalls
    /\ IF watch_id = None
       THEN /\ closeLog' = [closeLog EXCEPT !.calls = @ + 1]
            /\ UNCHANGED <<watches, closed, watch_id, rec, owner>>
       ELSE \* cancel_watch(watch_id) on self._etcd, then self._etcd.close():
            \* the client's watches, if it has any, are gone either way
            /\ closeLog' = [calls |-> closeLog.calls + 1,
                            cancel |-> closeLog.cancel + 1,
                            close |-> closeLog.close + 1]
            /\ watches' = [w \in DOMAIN watches \ WatchesOf(watches, etcd) |->
                              watches[w]]
            /\ closed' = closed \cup {etcd}
            /\ watch_id' = None
            /\ owner' = [made |-> None, last |-> Some(<<etcd, owner.made[1]>>)]
            /\ rec' = [rec EXCEPT !.closedInWait = @ \/ cb = "sleep",
                                  !.closedInLoop = @ \/ rec.active]
    /\ UNCHANGED <<store, up, outages, writes, signals, cache, etcd, main,
                   cb, ctorLog, cbError, call, ret, base, hist, snap>>

----------------------------------------------------------------------------
(* The typed getters, lines 190-318.  Each tests `setting not in           *)
(* self._cache`, then reads self._cache[setting] and converts it: two      *)
(* steps of the foreground thread, between which the watcher thread may    *)
(* run.                                                                    *)

Digits == {"0", "1", "2", "3", "4", "5", "6", "7", "8", "9"}

DigitVal(ch) ==
    CASE ch = "0" -> 0 [] ch = "1" -> 1 [] ch = "2" -> 2 [] ch = "3" -> 3
      [] ch = "4" -> 4 [] ch = "5" -> 5 [] ch = "6" -> 6 [] ch = "7" -> 7
      [] ch = "8" -> 8 [] ch = "9" -> 9

AllDigits(str) == \A i \in 1..Len(str) : str[i] \in Digits

\* The number a digit string denotes, digit by digit from the left.
RECURSIVE DigitsValue(_)
DigitsValue(str) ==
    IF str = <<>> THEN 0
    ELSE 10 * DigitsValue(SubSeq(str, 1, Len(str) - 1)) + DigitVal(str[Len(str)])

\* str.strip(), as int() and float() apply it to their argument
RECURSIVE LStrip(_)
LStrip(str) == IF str # <<>> /\ str[1] = " " THEN LStrip(Tail(str)) ELSE str

RECURSIVE RStrip(_)
RStrip(str) ==
    IF str # <<>> /\ str[Len(str)] = " "
    THEN RStrip(SubSeq(str, 1, Len(str) - 1)) ELSE str

Strip(str) == RStrip(LStrip(str))

Signed(str) == str # <<>> /\ str[1] \in {"+", "-"}
Unsigned(str) == IF Signed(str) THEN Tail(str) ELSE str
SignOf(str) == IF str # <<>> /\ str[1] = "-" THEN -1 ELSE 1

\* (mutant of PyInt: a number with a fraction is truncated, as int(float(v)))
PyIntTruncates(v) ==
    LET str == Strip(v)
        body == Unsigned(str)
        di == IF \E i \in 1..Len(body) : body[i] = "."
              THEN CHOOSE i \in 1..Len(body) : body[i] = "." ELSE Len(body) + 1
        ip == SubSeq(body, 1, di - 1)
        fp == SubSeq(body, di + 1, Len(body))
    IN  IF ip # <<>> /\ AllDigits(ip) /\ AllDigits(fp)
        THEN <<TRUE, SignOf(str) * DigitsValue(ip)>>
        ELSE <<FALSE, 0>>

\* int(v) for a str v, line 259: <<TRUE, n>>, or <<FALSE, 0>> for ValueError.
\* (Digits grouped by "_", which only Python 3.6 and later accept, are not
\* among the values of the model.)
PyInt(v) ==
    LET str == Strip(v)
        body == Unsigned(str)
    IN  IF body # <<>> /\ AllDigits(body)
        THEN <<TRUE, SignOf(str) * DigitsValue(body)>>
        ELSE <<FALSE, 0>>

\* The index of the first ch in str, or 0
FirstIndex(str, chs) ==
    IF \E i \in 1..Len(str) : str[i] \in chs
    THEN CHOOSE i \in 1..Len(str) :
            str[i] \in chs /\ \A j \in 1..(i - 1) : str[j] \notin chs
    ELSE 0

\* A decimal number m * 10^e, without trailing zeros in m
RECURSIVE Normal(_, _)
Normal(m, e) ==
    IF m = 0 THEN [m |-> 0, e |-> 0]
    ELSE IF m % 10 = 0 THEN Normal(m \div 10, e + 1)
    ELSE [m |-> m, e |-> e]

\* float(v) for a str v, line 285: <<TRUE, x>> with x the decimal number
\* written (binary rounding is not modelled), or <<FALSE, 0>> for ValueError.
\* ("inf" and "nan" are not among the values of the model.)
PyFloat(v) ==
    LET str == Strip(v)
        body == Unsigned(str)
        ei == FirstIndex(body, {"e", "E"})
        mant == IF ei = 0 THEN body ELSE SubSeq(body, 1, ei - 1)
        expo == IF ei = 0 THEN <<>> ELSE SubSeq(body, ei + 1, Len(body))
        di == FirstIndex(mant, {"."})
        ip == IF di = 0 THEN mant ELSE SubSeq(mant, 1, di - 1)
        fp == IF di = 0 THEN <<>> ELSE SubSeq(mant, di + 1, Len(mant))
        expOk == ei = 0 \/ (Unsigned(expo) # <<>> /\ AllDigits(Unsigned(expo)))
        expVal == IF ei = 0 THEN 0 ELSE SignOf(expo) * DigitsValue(Unsigned(expo))
    IN  IF AllDigits(ip) /\ AllDigits(fp) /\ Len(ip) + Len(fp) > 0 /\ expOk
        THEN <<TRUE, Normal(SignOf(str) * DigitsValue(ip \o fp), expVal - Len(fp))>>
        ELSE <<FALSE, 0>>

\* The month dateutil fills in for a bare day number: the current one
\* (tests.py, line 198, was run in December 2021).
ThisYear == 2021
ThisMonth == 12

\* dateutil.parser.parse(v), line 311: the possible outcomes.  One or two
\* digits that number a day give that day of the current month; a string
\* with no digit at all is no date (ValueError).  What the parser makes of
\* any other string is not modelled: either outcome is allowed.
DateOutcomes(v) ==
    LET day == [year |-> ThisYear, month |-> ThisMonth, day |-> DigitsValue(v)]
        bad == <<FALSE, 0>>
    IN  IF v # <<>> /\ Len(v) <= 2 /\ AllDigits(v)
        THEN IF DigitsValue(v) \in 1..31 THEN {<<TRUE, day>>} ELSE {bad}
        ELSE IF \A i \in 1..Len(v) : v[i] \notin Digits THEN {bad}
        ELSE {bad, <<TRUE, [year |-> ThisYear, month |-> ThisMonth, day |-> 1]>>}

STrue == <<"t", "r", "u", "e">>
SFalse == <<"f", "a", "l", "s", "e">>

Kinds == {"string", "boolean", "integer", "float", "date"}

\* The conversion each getter applies to the cached value v (a str):
\* the set of possible <<ok, value>>.
Convert(kind, v) ==
    CASE kind = "string" -> {<<TRUE, v>>}
      [] kind = "boolean" ->
            IF v \in {STrue, SFalse} THEN {<<TRUE, v = STrue>>} ELSE {<<FALSE, 0>>}
      [] kind = "integer" -> {PyInt(v)}
      [] kind = "float" -> {PyFloat(v)}
      [] kind = "date" -> DateOutcomes(v)

\* (mutant of GetterCheck: no membership test before the lookup)
GetterCheckNoTest(kind, setting, default_value) ==
    /\ main = "ready"
    /\ call.stage = "idle"
    /\ call' = [stage |-> "lookup", kind |-> kind,
                setting |-> setting, dflt |-> default_value]
    /\ ret' = NoRet
    /\ UNCHANGED <<remoteVars, cache, watch_id, etcd, owner, closed, main, cb,
                   ctorLog, cbError, closeLog, rec, base, hist, snap>>

\* Lines 198-203 (224-229, 250-255, 276-281, 302-307): the membership test.
GetterCheck(kind, setting, default_value) ==
    /\ main = "ready"
    /\ call.stage = "idle"
    /\ IF setting \notin DOMAIN cache
       THEN /\ ret' = [kind |-> kind, setting |-> setting,
                       dflt |-> default_value, value |-> default_value,
                       log |-> "not found", error |-> "none"]
            /\ call' = call
       ELSE /\ call' = [stage |-> "lookup", kind |-> kind,
                        setting |-> setting, dflt |-> default_value]
            /\ ret' = NoRet
    /\ UNCHANGED <<remoteVars, cache, watch_id, etcd, owner, closed, main, cb,
                   ctorLog, cbError, closeLog, rec, base, hist, snap>>

\* (mutant of GetterLookup: a value that does not convert is dropped from
\* the cache)
GetterLookupEvicts ==
    /\ call.stage = "lookup"
    /\ call' = Idle
    /\ IF call.setting \notin DOMAIN cache
       THEN /\ ret' = [kind |-> call.kind, setting |-> call.setting,
                       dflt |-> call.dflt, value |-> call.dflt,
                       log |-> "none", error |-> "KeyError"]
            /\ cache' = cache
       ELSE \E r \in Convert(call.kind, cache[call.setting]) :
              /\ ret' = [kind |-> call.kind, setting |-> call.setting,
                         dflt |-> call.dflt,
                         value |-> IF r[1] THEN r[2] ELSE call.dflt,
                         log |-> IF r[1] THEN "none" ELSE "invalid",
                         error |-> "none"]
              /\ cache' = IF r[1] THEN cache ELSE DictDel(cache, call.setting)
    /\ snap' = Held(cache')
    /\ UNCHANGED <<remoteVars, watch_id, etcd, owner, closed, main, cb,
                   ctorLog, cbError, closeLog, rec, base, hist>>

\* Lines 205-214 (231-240, 257-266, 283-292, 309-318): the lookup and the
\* conversion.
GetterLookup ==
    /\ call.stage = "lookup"
    /\ call' = Idle
    /\ IF call.setting \notin DOMAIN cache
       THEN ret' = [kind |-> call.kind, setting |-> call.setting,
                    dflt |-> call.dflt, value |-> call.dflt,
                    log |-> "none", error |-> "KeyError"]
       ELSE \E r \in Convert(call.kind, cache[call.setting]) :
              ret' = [kind |-> call.kind, setting |-> call.setting,
                      dflt |-> call.dflt,
                      value |-> IF r[1] THEN r[2] ELSE call.dflt,
                      log |-> IF r[1] THEN "none" ELSE "invalid",
                      error |-> "none"]
    /\ UNCHANGED <<remoteVars, cache, watch_id, etcd, owner, closed, main, cb,
                   ctorLog, cbError, closeLog, rec, base, hist, snap>>

----------------------------------------------------------------------------
(* Config.settings, line 188, called on the foreground thread, and what    *)
(* the caller then does with the dict it was handed.                       *)

\* (mutant of settings_call: self._cache itself is returned, not a copy)
settingsReturnsCache ==
    /\ main = "ready"
    /\ call.stage = "idle"
    /\ ~snap.taken
    /\ snap' = [taken |-> TRUE, shared |-> TRUE, map |-> cache, at |-> cache,
                edited |-> FALSE]
    /\ UNCHANGED <<remoteVars, cache, watch_id, etcd, owner, closed, main, cb,
                   ctorLog, cbError, closeLog, rec, base, hist, call, ret>>

settings_call ==
    /\ main = "ready"
    /\ call.stage = "idle"
    /\ ~snap.taken
    /\ snap' = [taken |-> TRUE, shared |-> FALSE, map |-> cache, at |-> cache,
                edited |-> FALSE]
    /\ UNCHANGED <<remoteVars, cache, watch_id, etcd, owner, closed, main, cb,
                   ctorLog, cbError, closeLog, rec, base, hist, call, ret>>

\* The caller assigns to, or deletes from, the dict settings() returned.  If
\* that dict is self._cache, the cache changes with it.
CallerSets(n, v) ==
    /\ snap.taken
    /\ ~snap.edited
    /\ snap' = [snap EXCEPT !.map = DictSet(@, n, v), !.edited = TRUE]
    /\ cache' = IF snap.shared THEN DictSet(cache, n, v) ELSE cache
    /\ UNCHANGED <<remoteVars, watch_id, etcd, owner, closed, main, cb, ctorLog,
                   cbError, closeLog, rec, base, hist, call, ret>>

CallerDeletes(n) ==
    /\ snap.taken
    /\ ~snap.edited
    /\ n \in DOMAIN snap.map
    /\ snap' = [snap EXCEPT !.map = DictDel(@, n), !.edited = TRUE]
    /\ cache' = IF snap.shared THEN DictDel(cache, n) ELSE cache
    /\ UNCHANGED <<remoteVars, watch_id, etcd, owner, closed, main, cb, ctorLog,
                   cbError, closeLog, rec, base, hist, call, ret>>

----------------------------------------------------------------------------

Next ==
    \/ \E k \in RawKeys, v \in RawVals : StorePut(k, v)
    \/ \E k \in RawKeys : StoreDelete(k)
    \/ ServerDown
    \/ ServerUp
    \/ CtorLoad
    \/ CtorCreateWatcher
    \/ \E c \in DOMAIN watches, n \in 1..MaxBatch : WatchEvents(c, n)
    \/ \E c \in signals : WatchNoEvents(c)
    \/ LoopTest
    \/ Reload
    \/ Resubscribe
    \/ close

Spec == Init /\ [][Next]_vars

----------------------------------------------------------------------------
(* The state in which __init__ returns when etcd is reachable and holds    *)
(* the keyspace st, with the events `pending` already sent on the watch.   *)

Constructed(st, pending) ==
    /\ store = st
    /\ up = TRUE
    /\ outages = 0
    /\ writes = 0
    /\ watches = [w \in {<<1, FirstWatchId>>} |-> pending]
    /\ signals = {}
    /\ cache = LoadEntries(EmptyDict, GetPrefix(st)).cache
    /\ watch_id = Some(FirstWatchId)
    /\ etcd = 1
    /\ closed = {}
    /\ main = "ready"
    /\ cb = "idle"
    /\ ctorLog = << <<"_load", "ok", "True">>,
                  <<"_create_watcher", "ok", "True">> >>
    /\ cbError = "none"
    /\ closeLog = [calls |-> 0, cancel |-> 0, close |-> 0]
    /\ rec = NoRec
    /\ base = LoadEntries(EmptyDict, GetPrefix(st)).cache
    /\ hist = <<>>
    /\ call = Idle
    /\ ret = NoRet
    /\ snap = NoSnap
    /\ owner = [made |-> Some(1), last |-> None]

GoodStores == {st \in InitStores : \A k \in DOMAIN st : ValidUtf8(st[k])}

----------------------------------------------------------------------------
(* Event application alone: any loaded cache, any sequence of at most      *)
(* MaxEvents events, handed to _watch in responses of 1..MaxBatch events.  *)

MaxEvents == 3

Events == {PutEvent(k, v) : k \in RawKeys, v \in RawVals}
              \cup {DeleteEvent(k) : k \in RawKeys}

EventSeqs == UNION {[1..n -> Events] : n \in 0..MaxEvents}

InitEvents == \E st \in GoodStores, evs \in EventSeqs : Constructed(st, evs)

NextEvents == \E c \in DOMAIN watches, n \in 1..MaxBatch : WatchEvents(c, n)

SpecEvents == InitEvents /\ [][NextEvents]_vars

----------------------------------------------------------------------------
(* The getters alone, over caches loaded from a store that holds any of    *)
(* the values GetVals.                                                     *)

GetVals == {STrue, SFalse, <<"1", "0">>, <<"1", ".", "0", "0", "1">>,
            <<"a", "l", "i", "c", "e">>, <<"-", "1">>, <<" ", "1", "0", " ">>,
            <<"2", "e", "1">>, <<>>}

GetStores == UNION {[S -> {Encode(v) : v \in GetVals}] : S \in SUBSET RawKeys}

Defaults(kind) ==
    CASE kind = "string" -> {<<"b", "o", "b">>, <<>>}
      [] kind = "boolean" -> {TRUE, FALSE}
      [] kind = "integer" -> {5, -7}
      [] kind = "float" -> {Normal(366, -1), Normal(0, 0)}
      [] kind = "date" -> {[year |-> 2021, month |-> 11, day |-> 30]}

InitGet == \E st \in GetStores : Constructed(st, <<>>)

NextGet ==
    \/ \E kind \in Kinds, n \in Names :
         \E d \in Defaults(kind) : GetterCheck(kind, n, d)
    \/ GetterLookup

SpecGet == InitGet /\ [][NextGet]_vars

----------------------------------------------------------------------------
(* A getter call on the foreground thread while the watcher thread applies *)
(* the events of writes made to the store.                                 *)

InitRead == \E st \in GoodStores : Constructed(st, <<>>)

NextRead ==
    \/ \E k \in RawKeys, v \in RawVals : StorePut(k, v)
    \/ \E k \in RawKeys : StoreDelete(k)
    \/ \E c \in DOMAIN watches, n \in 1..MaxBatch : WatchEvents(c, n)
    \/ \E kind \in Kinds, n \in Names :
         \E d \in Defaults(kind) : GetterCheck(kind, n, d)
    \/ GetterLookup

SpecRead == InitRead /\ [][NextRead]_vars

----------------------------------------------------------------------------
(* The same, with a call of settings() whose result the caller keeps and   *)
(* changes.                                                                *)

CallerVals == {<<"9">>}

NextSnap ==
    \/ \E k \in RawKeys, v \in RawVals : StorePut(k, v)
    \/ \E k \in RawKeys : StoreDelete(k)
    \/ \E c \in DOMAIN watches, n \in 1..MaxBatch : WatchEvents(c, n)
    \/ settings_call
    \/ \E n \in Names, v \in CallerVals : CallerSets(n, v)
    \/ \E n \in Names : CallerDeletes(n)
    \/ \E n \in Names : GetterCheck("string", n, <<>>)
    \/ GetterLookup

SpecSnap == InitRead /\ [][NextSnap]_vars

----------------------------------------------------------------------------
(* A Config from its construction on: the bulk load, the watch, the events *)
(* of writes made to the store, and the foreground thread calling the      *)
(* getters and settings().                                                 *)

NextUse ==
    \/ \E k \in RawKeys, v \in RawVals : StorePut(k, v)
    \/ \E k \in RawKeys : StoreDelete(k)
    \/ CtorLoad
    \/ CtorCreateWatcher
    \/ \E c \in DOMAIN watches, n \in 1..MaxBatch : WatchEvents(c, n)
    \/ \E kind \in Kinds, n \in Names :
         \E d \in Defaults(kind) : GetterCheck(kind, n, d)
    \/ GetterLookup
    \/ settings_call

SpecUse == Init /\ [][NextUse]_vars

----------------------------------------------------------------------------
(* The reconnect loop alone: a constructed Config, etcd going away and     *)
(* coming back up to MaxLoopOutages times, and close().                    *)

MaxLoopOutages == 2

NextLoop ==
    \/ Outage(MaxLoopOutages)
    \/ ServerUp
    \/ \E c \in signals : WatchNoEvents(c)
    \/ LoopTest
    \/ Reload
    \/ Resubscribe
    \/ close

SpecLoop == InitRead /\ [][NextLoop]_vars

\* The watcher thread goes on: it does not stay for ever at the test of
\* line 157 ("loop"), in time.sleep ("sleep", the step that leaves it is
\* Reload) or before _create_watcher ("loaded", left by Resubscribe); the
\* calls to etcd return, with a result or with an error.
Leaves(pos) == cb = pos /\ cb' \in {"idle", "loop", "sleep", "loaded"} \ {pos}

FairLoop ==
    /\ SpecLoop
    /\ WF_cb(Leaves("loop"))
    /\ WF_cb(Leaves("sleep"))
    /\ WF_cb(Leaves("loaded"))

----------------------------------------------------------------------------
(* What the claims are stated in *)

\* The setting name of a raw key: the key without the prefix, as text
NameOfKey(k) == Decode(SubSeq(k, Len(PathBytes) + 1, Len(k)))

StoreDecodable == \A k \in DOMAIN store : ValidUtf8(store[k])

\* The entries stored under the prefix, by setting name
StoreView ==
    [n \in {NameOfKey(k) : k \in DOMAIN store} |->
        Decode(store[PathBytes \o Encode(n)])]

Quiescent == \A c \in DOMAIN watches : watches[c] = <<>>

\* The index of the last event of h that names n, or 0
LastOn(h, n) ==
    IF \E i \in 1..Len(h) : NameOfKey(h[i].key) = n
    THEN CHOOSE i \in 1..Len(h) :
            /\ NameOfKey(h[i].key) = n
            /\ \A j \in (i + 1)..Len(h) : NameOfKey(h[j].key) # n
    ELSE 0

\* The entries of b that no event of h names, and for every other name the
\* value of its last event, if that is a Put
LatestWins(b, h) ==
    LET named == {NameOfKey(h[i].key) : i \in 1..Len(h)}
        alive == (DOMAIN b \ named)
                    \cup {n \in named : h[LastOn(h, n)].type = "put"}
    IN  [n \in alive |-> IF n \in named THEN Decode(h[LastOn(h, n)].value)
                         ELSE b[n]]

\* b laid over a: the entries of b, and those of a that b does not name
Overlay(a, b) ==
    [n \in DOMAIN a \cup DOMAIN b |-> IF n \in DOMAIN b THEN b[n] ELSE a[n]]

Watching ==
    /\ cb = "idle"
    /\ watch_id # None
    /\ \E w \in DOMAIN watches : w[1] = etcd /\ Some(w[2]) = watch_id

SA == <<"a">>

----------------------------------------------------------------------------
(* C1.  Eventual consistency: when the connection never failed, close was  *)
(* not called, construction has returned, and every event the store sent   *)
(* to the watch has been applied (without an exception in the callback),   *)
(* the cache equals the entries stored under the prefix.  The code does    *)
(* not keep this: a write made between get_prefix (line 86) and            *)
(* add_watch_prefix_callback (line 111) reaches neither.                   *)
C1_EventualConsistency ==
    (/\ main = "ready"
     /\ outages = 0
     /\ closeLog.calls = 0
     /\ cb = "idle"
     /\ cbError = "none"
     /\ StoreDecodable
     /\ Quiescent)
        => cache = StoreView

(* C2.  Event application is an in-order fold: as long as no event made    *)
(* the callback raise (every Delete named a key that was in the cache,     *)
(* every payload was UTF-8), settings() is the loaded cache with, for each *)
(* name the delivered events mention, the value of its last Put, or        *)
(* nothing if its last event is a Delete; whatever the split of the events *)
(* into responses.                                                         *)
C2_InOrderFold == cbError = "none" => settings = LatestWins(base, hist)

\* [Put(a,1), Put(a,2), Delete(a)] was delivered and a is absent
C2_Witness ==
    /\ hist = <<PutEvent(PathBytes \o <<97>>, <<49>>),
                PutEvent(PathBytes \o <<97>>, <<50>>),
                DeleteEvent(PathBytes \o <<97>>)>>
    /\ Quiescent
    /\ cbError = "none"
    /\ SA \notin DOMAIN settings

(* C3.  Close during the backoff wait: the loop makes no further reload or *)
(* subscription attempt after the close, and once it has exited no         *)
(* subscription is registered and the handle is None.  The code tests      *)
(* self._watch_id before time.sleep (line 157), not after it, so the       *)
(* reload of line 170 is still attempted.                                  *)
C3_CloseStopsReconnect ==
    rec.closedInWait =>
        /\ ~rec.rpcAfterClose
        /\ ~rec.active => (watch_id = None /\ WatchesOf(watches, etcd) = {})

(* C4.  Reconnect scenario: the stream terminated, two reloads failed, one *)
(* reload succeeded and the subscription after it succeeded.               *)
ReconnectedAfterTwoFailures ==
    /\ cb = "loaded"
    /\ rec.fails = 2
    /\ rec.oks = 1
    /\ rec'.outcome = "reconnected"

\* C4 as claimed: then the Synchronizer is Watching and the cache equals what
\* that reload returned, whatever it held before.
C4_CacheEqualsReload ==
    [][ReconnectedAfterTwoFailures =>
          Watching' /\ cache' = rec.loaded[1]]_vars

\* C4 as the code has it (_load only assigns, lines 94-96): the cache is what
\* the reload returned laid over what it held when the stream terminated.
C4_CacheIsReloadOverStale ==
    [][ReconnectedAfterTwoFailures =>
          Watching' /\ cache' = Overlay(rec.cache0, rec.loaded[1])]_vars

\* The scenario has happened, with an entry in the cache that the reload
\* did not return
C4_Witness ==
    /\ rec.outcome = "reconnected"
    /\ rec.fails = 2
    /\ rec.oks = 1
    /\ hist = <<>>
    /\ Watching
    /\ DOMAIN rec.cache0 \ DOMAIN rec.loaded[1] # {}
    /\ DOMAIN rec.loaded[1] # {}

(* C5.  Reads never fail: a getter call that runs while the watcher thread *)
(* applies events returns without raising.  The code tests membership      *)
(* (line 198) and reads the entry (line 205) in two steps; a Delete        *)
(* applied between them makes the read raise KeyError.                     *)
C5_ReadsNeverFail == ret.kind # "none" => ret.error = "none"

(* C6.  A Delete event for a name that is not in the cache is a no-op: no  *)
(* KeyError leaves the callback and the events after it are applied, so    *)
(* that (unless a payload was not UTF-8) the cache is the loaded cache     *)
(* with the last event of every name applied.  The code deletes            *)
(* unconditionally (line 136).                                             *)
C6_DeleteAbsentIsNoOp ==
    cbError # "UnicodeDecodeError" =>
        cbError = "none" /\ cache = LatestWins(base, hist)

(* C7.  A getter called for a name that is not in the cache returns the    *)
(* default it was given, logs "not found", raises nothing, and the cache   *)
(* stays as it was loaded.                                                 *)
C7_AbsentGivesDefault ==
    /\ cache = base
    /\ (ret.kind # "none" /\ ret.setting \notin DOMAIN cache) =>
          /\ ret.value = ret.dflt
          /\ ret.log = "not found"
          /\ ret.error = "none"

C7_Witness ==
    /\ ret.kind = "date"
    /\ ret.setting \notin DOMAIN cache
    /\ ret.log = "not found"
    /\ DOMAIN cache # {}

(* C8.  The boolean and the integer getter on a cached value.              *)

RECURSIVE Pow10(_)
Pow10(n) == IF n = 0 THEN 1 ELSE 10 * Pow10(n - 1)

\* The number a digit string denotes: the sum of its digits' place values
RECURSIVE PlaceValue(_)
PlaceValue(str) ==
    IF str = <<>> THEN 0
    ELSE DigitVal(str[1]) * Pow10(Len(str) - 1) + PlaceValue(Tail(str))

\* A base-10 integer string: an optional sign, then one or more digits
IsBase10Integer(str) ==
    \E i \in 0..1 :
        /\ Len(str) > i
        /\ i = 1 => str[1] \in {"+", "-"}
        /\ \A j \in (i + 1)..Len(str) : str[j] \in Digits

Denoted(str) ==
    IF str[1] = "-" THEN 0 - PlaceValue(Tail(str))
    ELSE IF str[1] = "+" THEN PlaceValue(Tail(str))
    ELSE PlaceValue(str)

\* The strings str is one of, with blanks before and after it
Cores(str) ==
    {SubSeq(str, i, j) : i \in 1..(Len(str) + 1), j \in 0..Len(str)}

IsPadded(str, core) ==
    \E i \in 1..(Len(str) + 1), j \in 0..Len(str) :
        /\ core = SubSeq(str, i, j)
        /\ \A k \in (1..(i - 1)) \cup ((j + 1)..Len(str)) : str[k] = " "

BooleanAsClaimed(v, r) ==
    IF v = STrue THEN r.value = TRUE /\ r.log = "none"
    ELSE IF v = SFalse THEN r.value = FALSE /\ r.log = "none"
    ELSE r.value = r.dflt /\ r.log = "invalid"

C9_SoftStart ==
    /\ [][(main = "load" /\ main' # "load" /\ ctorLog'[1][2] = "etcd_error")
            => /\ ctorLog' = << <<"_load", "etcd_error", "False">> >>
               /\ cache' = cache
               /\ main' = "watch"]_vars
    /\ [][(main = "watch" /\ main' # "watch")
            => /\ main' = "ready"
               /\ Len(ctorLog') = 2
               /\ ctorLog'[2][1] = "_create_watcher"]_vars
    /\ [](main = "ready" => Len(ctorLog) = 2)

\* The load failed, the watch was established all the same
C9_Witness ==
    /\ main = "ready"
    /\ ctorLog = << <<"_load", "etcd_error", "False">>,
                    <<"_create_watcher", "ok", "True">> >>
    /\ Watching
    /\ hist = <<>>
    /\ cache = EmptyDict
    /\ store # EmptyDict

(* C10.  Close takes effect at most once: with no handle held it issues no *)
(* call and changes nothing; with a handle it issues one cancel_watch and  *)
(* one close() and sets the handle to None; so over the whole life of the  *)
(* Config at most one of each is issued.                                   *)
C10_CloseOnce ==
    /\ [][closeLog' # closeLog =>
            IF watch_id = None
            THEN /\ closeLog'.cancel = closeLog.cancel
                 /\ closeLog'.close = closeLog.close
                 /\ UNCHANGED <<store, up, outages, writes, watches, signals,
                                cache, watch_id, etcd, closed, main, cb,
                                ctorLog, cbError, rec, base, hist, call, ret>>
            ELSE /\ closeLog'.cancel = closeLog.cancel + 1
                 /\ closeLog'.close = closeLog.close + 1
                 /\ watch_id' = None
                 /\ closed' = closed \cup {etcd}]_vars
    /\ [](closeLog.cancel <= 1 /\ closeLog.close <= 1)

\* A second close() after one that took effect
C10_Witness == closeLog.calls = 2 /\ closeLog.cancel = 1 /\ closeLog.close = 1

(* C11.  settings() returns an independent copy: as long as the caller     *)
(* has not changed the mapping it was handed, the mapping is the cache as  *)
(* it was at the call, whatever events were applied since; a change the    *)
(* caller makes to it leaves the cache as it is, the cache stays what the  *)
(* load and the delivered events make it, and a string getter that finds   *)
(* its setting returns the cached value.                                   *)
C11_SnapshotIsIndependent ==
    /\ []((snap.taken /\ ~snap.edited) => snap.map = snap.at)
    /\ [][(snap.taken /\ snap'.map # snap.map) => cache' = cache]_vars
    /\ [](cbError = "none" => cache = LatestWins(base, hist))
    /\ [][(cbError = "none" /\ call.stage = "lookup" /\ call'.stage = "idle"
            /\ call.setting \in DOMAIN LatestWins(base, hist))
           => ret'.value = LatestWins(base, hist)[call.setting]]_vars

\* An event changed the cache after the call, the caller changed the
\* mapping, and a getter was called after that
C11_Witness ==
    /\ snap.taken
    /\ snap.edited
    /\ hist # <<>>
    /\ cache # snap.at
    /\ snap.map # snap.at
    /\ snap.map # cache
    /\ ret.kind = "string"
    /\ cbError = "none"

(* C12.  Put is idempotent: when the callback is handed a Put event equal  *)
(* to the event it applied last, the cache stays as the first application  *)
(* left it; and handed the same Put twice in one response, it leaves the   *)
(* cache with that one entry set, as one application does.                 *)
C12_PutIdempotent ==
    [][\A e \in Events :
          (cbError' = "none" /\ e.type = "put") =>
              /\ (hist # <<>> /\ hist[Len(hist)] = e /\ hist' = hist \o <<e>>)
                    => cache' = cache
              /\ hist' = hist \o <<e, e>> =>
                    /\ DOMAIN cache' = DOMAIN cache \cup {NameOfKey(e.key)}
                    /\ cache'[NameOfKey(e.key)] = Decode(e.value)
                    /\ \A n \in DOMAIN cache \ {NameOfKey(e.key)} :
                          cache'[n] = cache[n]]_vars

\* Put(a, "1") was applied twice in succession to a cache that held a = "2"
C12_Witness ==
    /\ hist = <<PutEvent(PathBytes \o <<97>>, <<49>>),
                PutEvent(PathBytes \o <<97>>, <<49>>)>>
    /\ SA \in DOMAIN base
    /\ base[SA] = <<"2">>
    /\ cbError = "none"
    /\ cache[SA] = <<"1">>

(* C13.  Step order in the reconnect loop, read off the loop's latest      *)
(* steps: a reload attempt comes directly after one wait, and is never the *)
(* loop's first step; a subscription attempt comes directly after a reload *)
(* that succeeded; and after a failed reload or a failed subscription the  *)
(* loop's next step is the wait (or, at the test in between, giving up     *)
(* because the Config was closed), not another attempt.                    *)
LoadSteps == {"load_ok", "load_fail", "load_raised"}
WatchSteps == {"watch_ok", "watch_fail", "watch_raised"}

C13_StepOrder ==
    LET t == rec.trace
    IN  \A i \in 1..Len(t) :
          /\ t[i] \in LoadSteps =>
                IF i = 1 THEN Len(t) = MaxTrace ELSE t[i - 1] = "wait"
          /\ (t[i] = "wait" /\ i > 1) => t[i - 1] # "wait"
          /\ t[i] \in WatchSteps =>
                IF i = 1 THEN Len(t) = MaxTrace ELSE t[i - 1] = "load_ok"
          /\ (t[i] \in {"load_fail", "watch_fail"} /\ i < Len(t)) =>
                t[i + 1] \in {"wait", "give_up"}

\* A subscription attempt failed after a successful reload and the loop is
\* in the wait again
C13_Witness ==
    /\ rec.active
    /\ cb = "sleep"
    /\ Len(rec.trace) >= 2
    /\ rec.trace[Len(rec.trace)] = "wait"
    /\ rec.trace[Len(rec.trace) - 1] = "watch_fail"
    /\ rec.fails > 0
    /\ rec.oks > 0

(* C14.  The reconnect loop has no retry limit and exits only when it      *)
(* finds the Config closed or when a reload and the subscription after it  *)
(* both succeeded: as long as close was never called, a loop that is over  *)
(* has reconnected.  The code leaves the loop a third way: an exception    *)
(* that _load does not catch (UnicodeDecodeError from _decode_setting,     *)
(* line 95) leaves _load and the callback at line 170.                     *)
C14_ExitsOnlyClosedOrReconnected ==
    (closeLog.calls = 0 /\ ~rec.active /\ rec.outcome # "none")
        => (rec.outcome = "reconnected" /\ Watching)

(* C15.  Prompt exit after close: once close() has taken effect while the  *)
(* reconnect loop runs, the loop begins no further wait (it finishes at    *)
(* most the iteration it is in: the reload after a wait in progress, the   *)
(* subscription after a reload), and, the watcher thread being scheduled,  *)
(* the loop is eventually over, whatever the attempts' outcomes.           *)
C15_PromptExitAfterClose ==
    /\ [][(rec.active /\ rec.closedInLoop /\ cb # "sleep") => cb' # "sleep"]_vars
    /\ [][(rec.active /\ rec.closedInLoop /\ cb = "loop" /\ cb' # cb)
            => (cb' = "idle" /\ ~rec'.active)]_vars
    /\ ((rec.active /\ rec.closedInLoop) ~> ~rec.active)

\* close() came during the wait; the reload after the wait failed, and the
\* loop gave up at the next test
C15_Witness ==
    /\ rec.closedInLoop
    /\ rec.closedInWait
    /\ ~rec.active
    /\ rec.outcome = "closed"
    /\ rec.trace = <<"load_fail", "give_up">>

(* C16.  Startup asymmetry: when _create_watcher failed in __init__, the   *)
(* handle is None, no watch is registered, the reconnect loop has not run  *)
(* and does not start (no reload, no subscription attempt), and from then  *)
(* on no step changes the cache, the handle or the client.                 *)
StartedWithoutWatch ==
    /\ main = "ready"
    /\ ctorLog[2] = <<"_create_watcher", "etcd_error", "False">>

C16_NoRetryAfterFailedStart ==
    /\ [](StartedWithoutWatch =>
            /\ watch_id = None
            /\ DOMAIN watches = {}
            /\ signals = {}
            /\ cb = "idle"
            /\ rec = NoRec
            /\ etcd = 1
            /\ hist = <<>>)
    /\ [][StartedWithoutWatch =>
            /\ cache' = cache
            /\ watch_id' = watch_id
            /\ etcd' = etcd
            /\ cb' = cb
            /\ watches' = watches]_vars

\* The subscription failed at startup; etcd is back, holds what the cache
\* does not, and the cache is as __init__ left it
C16_Witness ==
    /\ StartedWithoutWatch
    /\ up
    /\ writes = 1
    /\ StoreDecodable
    /\ cache # StoreView
    /\ ctorLog[1][3] = "True"
    /\ cache = base

(* C17.  The reload before the first wait.                                 *)

\* The reconnect loop is in its first wait
AtFirstWait == rec.active /\ cb = "sleep" /\ rec.waits = 1

\* The reload attempts the callback has made since the stream terminated
Attempts == rec.fails + rec.oks

\* C17 as claimed: when the stream terminated with the cache empty, exactly
\* one reload attempt has been made by the first wait; with entries in the
\* cache, none.
C17_OpportunisticReload ==
    AtFirstWait => Attempts = (IF rec.cache0 = EmptyDict THEN 1 ELSE 0)

\* C17 as the code has it (lines 140-166: the log entry, the new client, the
\* test, time.sleep): no reload attempt is made before the first wait, with
\* the cache empty or not; the wait is the loop's first step and the cache
\* is as it was when the stream terminated.
C17_NoReloadBeforeFirstWait ==
    AtFirstWait =>
        /\ Attempts = 0
        /\ rec.trace = <<"wait">>
        /\ cache = rec.cache0

\* The stream terminated with the cache empty while etcd holds a setting
\* and is reachable again: the loop is in its first wait
C17_Witness ==
    /\ AtFirstWait
    /\ rec.cache0 = EmptyDict
    /\ store # EmptyDict
    /\ StoreDecodable
    /\ up

(* C18.  The cache is never emptied: a step removes a name from the cache  *)
(* only by applying a Delete event for that name; a bulk load that failed  *)
(* (at start or in the reconnect loop) leaves the cache as it was, one     *)
(* that succeeded leaves it with the returned entries laid over what it    *)
(* held; the stream-terminated signal with the replacement of the client,  *)
(* the test and the wait of the loop, and close() leave it as it was; so   *)
(* every name cached when the stream terminated is cached as long as the   *)
(* reconnect loop runs.                                                    *)
C18_OnlyDeleteRemoves ==
    /\ [][\A n \in DOMAIN cache :
            n \notin DOMAIN cache' =>
                \E i \in (Len(hist) + 1)..Len(hist') :
                    hist'[i].type = "delete" /\ NameOfKey(hist'[i].key) = n]_vars
    /\ [][((cb = "sleep" /\ cb' = "loop")
             \/ (main = "load" /\ main' = "watch" /\ ctorLog'[1][3] = "False"))
            => cache' = cache]_vars
    /\ [][(cb = "sleep" /\ cb' = "loaded")
            => cache' = Overlay(cache, rec'.loaded[1])]_vars
    /\ [][(main = "load" /\ main' = "watch" /\ ctorLog'[1][3] = "True")
            => cache' = Overlay(cache, StoreView)]_vars
    /\ [][(etcd' # etcd \/ closeLog' # closeLog \/ (cb = "loop" /\ cb' # cb))
            => cache' = cache]_vars
    /\ [](rec.active => DOMAIN rec.cache0 \subseteq DOMAIN cache)

\* In the reconnect loop, after a reload that succeeded: the cache holds a
\* name the store no longer has
C18_Witness ==
    /\ rec.active
    /\ cb = "loaded"
    /\ StoreDecodable
    /\ DOMAIN cache \ DOMAIN StoreView # {}
    /\ DOMAIN rec.cache0 \subseteq DOMAIN cache

(* C19.  The Synchronizer is the sole writer of the cache: a step of a     *)
(* getter call (the membership test, the lookup and conversion, whether it *)
(* gives the converted value or the default) or a call of settings()       *)
(* leaves the cache as it was; the cache changes only in a step of a bulk  *)
(* load or in the callback applying the events of a response.              *)
GetterStep ==
    \/ call'.stage # call.stage
    \/ /\ ret'.kind # "none"
       /\ \/ ret.kind # ret'.kind
          \/ ret.setting # ret'.setting
          \/ ret.log # ret'.log

C19_SoleWriter ==
    /\ [][(GetterStep \/ snap'.taken # snap.taken) => cache' = cache]_vars
    /\ [][cache' # cache =>
            \/ main = "load" /\ main' # main
            \/ cb = "sleep" /\ cb' # cb
            \/ /\ cb = "idle"
               /\ \E w \in DOMAIN watches \cap DOMAIN watches' :
                     Len(watches'[w]) < Len(watches[w])]_vars

\* settings() was called, an event has changed the cache since the load,
\* and the boolean getter gave its default for a value that is no boolean
C19_Witness ==
    /\ snap.taken
    /\ hist # <<>>
    /\ cbError = "none"
    /\ cache # base
    /\ ret.kind = "boolean"
    /\ ret.log = "invalid"
    /\ ret.setting \in DOMAIN cache

(* C20.  At most one subscription registered by the Config is active at    *)
(* any time; a subscription is registered only when none is active, by     *)
(* __init__ or by the reconnect loop (which runs only after the stream of  *)
(* the previous one has terminated); and having registered one the loop    *)
(* is over.                                                                *)
C20_OneSubscription ==
    /\ [](Cardinality(DOMAIN watches) <= 1)
    /\ [][DOMAIN watches' \ DOMAIN watches # {} =>
            /\ DOMAIN watches = {}
            /\ Cardinality(DOMAIN watches') = 1
            /\ main = "watch" \/ (rec.active /\ cb = "loaded")]_vars
    /\ [][(rec.active /\ DOMAIN watches' \ DOMAIN watches # {}) =>
            /\ cb' = "idle"
            /\ ~rec'.active
            /\ rec'.outcome = "reconnected"]_vars

\* The watch registered at construction is gone with its stream, the loop
\* has registered another on the new client and is over
C20_Witness ==
    /\ rec.outcome = "reconnected"
    /\ ~rec.active
    /\ DOMAIN watches = {<<2, FirstWatchId>>}
    /\ watch_id = Some(FirstWatchId)
    /\ etcd = 2
    /\ ctorLog[2][3] = "True"

(* C21.  Handle and connection stay paired: when close() has issued        *)
(* cancel_watch(self._watch_id) and close(), it has issued them on the     *)
(* client that watch id was obtained from, also when close() is called     *)
(* after a response without events made _watch replace self._etcd and      *)
(* before _create_watcher stored a new watch id.                           *)
C21_HandlePairedWithConnection ==
    owner.last # None => owner.last[1][1] = owner.last[1][2]

=============================================================================
